---- MODULE Spec2Model ----
(***************************************************************************)
(* Receipt verification of the RISC Zero zkVM (risc0/zkvm/src/receipt.rs): *)
(* SegmentReceipt::verify_with_context, the metadata decoder and the       *)
(* continuation-stitching loop of SessionReceipt::verify_with_context.     *)
(*                                                                         *)
(* A Digest is modelled as a natural number.  The hash functions are       *)
(* modelled as collision-free encodings (the cryptographic assumption the  *)
(* verifier rests on); the all-zero digest is 0.  A seal is modelled by    *)
(* what the verifier reads from it: the outcome of the proof check, the    *)
(* control ID the proof asserts, and the fields of its public output       *)
(* region.                                                                 *)
(***************************************************************************)
EXTENDS Integers, Sequences, FiniteSets, TLC

VARIABLES
    segments,       \* SessionReceipt.segments
    journal,        \* SessionReceipt.journal
    image_id,       \* argument image_id of verify_with_context
    ctx,            \* argument ctx: [suites |-> set of registered names]
    pc,             \* position in SessionReceipt::verify_with_context
    i,              \* position of the receipt the verifier is at (1-based)
    prev_image_id,  \* local prev_image_id
    metadata,       \* local metadata of the final receipt
    result,         \* returned value, "none" while running
    log,            \* calls and checks performed by the current call, in order
    run,            \* number of calls of verify_with_context started
    prevResult,     \* result of the previous call, "none" if there was none
    prevSegments,   \* segments as they were in the previous call
    prevJournal,    \* journal as it was in the previous call
    tamper,         \* what was changed between the calls
    parPc,          \* position of the gather-then-check variant of the call
    parStage,       \* per receipt: 0 untouched, 1 verified, 2 metadata decoded
    parResult       \* result of the variant, "none" until it returns

vars == <<segments, journal, image_id, ctx, pc, i, prev_image_id, metadata,
          result, log, run, prevResult, prevSegments, prevJournal, tamper,
          parPc, parStage, parResult>>

(***************************************************************************)
(* Bounds.                                                                 *)
(***************************************************************************)
MaxSegs == 3
MaxJournalLen == 2

(***************************************************************************)
(* Digests and hash functions.                                             *)
(***************************************************************************)
WORD_SIZE == 4

ZeroDigest == 0

\* A byte region of the seal that does not decode to a 32-byte Digest
\* (get_bytes or Digest::try_from fails).
BadBytes == 0 - 1

Bytes == {0, 1}

\* Sha256::digest over a byte sequence: a collision-free encoding of the
\* sequence that is never the all-zero digest.
RECURSIVE Sha256(_)
Sha256(bytes) ==
    IF bytes = <<>> THEN 1
    ELSE 256 * Sha256(SubSeq(bytes, 1, Len(bytes) - 1)) + bytes[Len(bytes)]

\* sha::Impl::compress(&SHA256_INIT, block1, block2) with block2 = [w, 0, .. 0]:
\* collision-free in (block1, w) for w < 1000.
sha_compress(block1, w) == 1000 * (block1 + 1) + w

compute_image_id_nopc(merkle_root, pc_) == sha_compress(merkle_root, 0)

compute_image_id(merkle_root, pc_) == sha_compress(merkle_root, pc_)

SystemState_compute_image_id(state) == compute_image_id(state.merkle_root, state.pc)

(***************************************************************************)
(* Results.                                                                *)
(***************************************************************************)
Ok(v) == [ok |-> TRUE, val |-> v, err |-> "Ok"]
Err(e) == [ok |-> FALSE, val |-> 0, err |-> e]

VerificationErrors ==
    {"ReceiptFormatError", "ImageVerificationError", "UnexpectedExitCode",
     "JournalDigestMismatch", "InvalidHashSuite", "ControlVerificationError",
     "InvalidProof"}

(***************************************************************************)
(* ExitCode and the metadata decoder.                                      *)
(***************************************************************************)
SystemSplit == [tag |-> "SystemSplit", code |-> 0]
SessionLimit == [tag |-> "SessionLimit", code |-> 0]
Paused(c) == [tag |-> "Paused", code |-> c]
Halted(c) == [tag |-> "Halted", code |-> c]

make_exit_code_session_limit(sys_exit, user_exit) ==
    CASE sys_exit = 0 -> Ok(Halted(user_exit))
      [] sys_exit = 1 -> Ok(Paused(user_exit))
      [] sys_exit = 2 -> Ok(SystemSplit)
      [] OTHER -> Ok(SessionLimit)

make_exit_code(sys_exit, user_exit) ==
    CASE sys_exit = 0 -> Ok(Halted(user_exit))
      [] sys_exit = 1 -> Ok(Paused(user_exit))
      [] sys_exit = 2 -> Ok(SystemSplit)
      [] OTHER -> Err("ReceiptFormatError")

get_exit_code_pairs_swapped(md) ==
    CASE md.exit_code.tag = "Halted" -> Ok(<<1, md.exit_code.code>>)
      [] md.exit_code.tag = "Paused" -> Ok(<<0, md.exit_code.code>>)
      [] md.exit_code.tag = "SystemSplit" -> Ok(<<2, 0>>)
      [] OTHER -> Err("ReceiptFormatError")

get_exit_code_pairs(md) ==
    CASE md.exit_code.tag = "Halted" -> Ok(<<0, md.exit_code.code>>)
      [] md.exit_code.tag = "Paused" -> Ok(<<1, md.exit_code.code>>)
      [] md.exit_code.tag = "SystemSplit" -> Ok(<<2, 0>>)
      [] OTHER -> Err("ReceiptFormatError")

SystemState_decode_from_io(root_bytes, pc_word) ==
    IF root_bytes = BadBytes THEN Err("ReceiptFormatError")
    ELSE Ok([pc |-> pc_word, merkle_root |-> root_bytes])

\* post.pc returned as recorded, without the adjustment
decode_from_io_no_adjust(io) ==
    LET pre == SystemState_decode_from_io(io.pre_root, io.pre_pc)
        post == SystemState_decode_from_io(io.post_root, io.post_pc)
        exit_code == make_exit_code(io.sys_exit, io.user_exit)
    IN  IF ~pre.ok THEN Err("ReceiptFormatError")
        ELSE IF ~post.ok THEN Err("ReceiptFormatError")
        ELSE IF io.input = BadBytes THEN Err("ReceiptFormatError")
        ELSE IF io.output = BadBytes THEN Err("ReceiptFormatError")
        ELSE IF ~exit_code.ok THEN Err("ReceiptFormatError")
        ELSE Ok([pre |-> pre.val,
                 post |-> [pc |-> post.val.pc,
                           merkle_root |-> post.val.merkle_root],
                 exit_code |-> exit_code.val,
                 input |-> io.input,
                 output |-> io.output])

decode_from_io(io) ==
    LET pre == SystemState_decode_from_io(io.pre_root, io.pre_pc)
        post == SystemState_decode_from_io(io.post_root, io.post_pc)
        exit_code == make_exit_code(io.sys_exit, io.user_exit)
    IN  IF ~pre.ok THEN Err("ReceiptFormatError")
        ELSE IF ~post.ok THEN Err("ReceiptFormatError")
        ELSE IF post.val.pc < WORD_SIZE THEN Err("ReceiptFormatError")
        ELSE IF io.input = BadBytes THEN Err("ReceiptFormatError")
        ELSE IF io.output = BadBytes THEN Err("ReceiptFormatError")
        ELSE IF ~exit_code.ok THEN Err("ReceiptFormatError")
        ELSE Ok([pre |-> pre.val,
                 post |-> [pc |-> post.val.pc - WORD_SIZE,
                           merkle_root |-> post.val.merkle_root],
                 exit_code |-> exit_code.val,
                 input |-> io.input,
                 output |-> io.output])

get_metadata(receipt) == decode_from_io(receipt.seal)

NoMetadata ==
    [pre |-> [pc |-> 0, merkle_root |-> ZeroDigest],
     post |-> [pc |-> 0, merkle_root |-> ZeroDigest],
     exit_code |-> SessionLimit, input |-> ZeroDigest, output |-> ZeroDigest]

(***************************************************************************)
(* SegmentReceipt::verify_with_context.                                    *)
(***************************************************************************)
POSEIDON_CONTROL_ID == {11, 12}
SHA256_CONTROL_ID == {21, 22}
BLAKE2B_CONTROL_ID == {31, 32}

\* The digests a proof may assert as its control ID.
ControlIds ==
    POSEIDON_CONTROL_ID \cup SHA256_CONTROL_ID \cup BLAKE2B_CONTROL_ID \cup {0, 99}

DefaultContext == [suites |-> {"blake2b", "poseidon", "sha-256"}]

check_code_sha_only(control_id) ==
    IF control_id \in SHA256_CONTROL_ID
    THEN "Ok" ELSE "ControlVerificationError"

check_code(control_id) ==
    IF control_id \in POSEIDON_CONTROL_ID \cup SHA256_CONTROL_ID \cup BLAKE2B_CONTROL_ID
    THEN "Ok" ELSE "ControlVerificationError"

\* risc0_zkp::verify::verify(circuit, suite, seal, check_code): a seal that is
\* malformed is rejected before the control ID is read; the control ID the
\* proof asserts is handed to check_code and its error is propagated; the
\* remaining proof checks follow.  check is the callback, as the function
\* from control ID to its answer.  Returns the result and the calls made.
zkp_verify(seal, check) ==
    IF seal.proof = "malformed"
    THEN [result |-> "ReceiptFormatError", events |-> <<"zkp_verify">>]
    ELSE IF check[seal.control_id] # "Ok"
    THEN [result |-> check[seal.control_id], events |-> <<"zkp_verify", "check_code">>]
    ELSE IF seal.proof = "invalid"
    THEN [result |-> "InvalidProof", events |-> <<"zkp_verify", "check_code">>]
    ELSE [result |-> "Ok", events |-> <<"zkp_verify", "check_code">>]

suites_get_any(c, hashfn) == TRUE

suites_get(c, hashfn) == hashfn \in c.suites

SegmentReceipt_verify_with_context_unchecked(receipt, c) ==
    IF ~suites_get(c, receipt.hashfn)
    THEN [result |-> "InvalidHashSuite", events |-> <<"suites_get">>]
    ELSE LET v == zkp_verify(receipt.seal, [id \in ControlIds |-> check_code(id)])
         IN  [result |-> "Ok", events |-> <<"suites_get">> \o v.events]

SegmentReceipt_verify_with_context(receipt, c) ==
    IF ~suites_get(c, receipt.hashfn)
    THEN [result |-> "InvalidHashSuite", events |-> <<"suites_get">>]
    ELSE LET v == zkp_verify(receipt.seal, [id \in ControlIds |-> check_code(id)])
         IN  [result |-> v.result, events |-> <<"suites_get">> \o v.events]

(***************************************************************************)
(* SessionReceipt::verify_with_context, one action per step of the body.   *)
(***************************************************************************)
\* Events of the receipt at position k.
At(events, k) == [e \in 1..Len(events) |-> <<events[e], k>>]

image_matches_any(prev, state) == TRUE

\* prev_image_id != metadata.pre.compute_image_id(), negated
image_matches(prev, state) == prev = SystemState_compute_image_id(state)

exit_is_split_or_paused(exit_code) == exit_code.tag # "Halted"

exit_is_split(exit_code) == exit_code = SystemSplit

is_journal_valid_first_byte(bytes, output) ==
    \/ (bytes = <<>> /\ output = ZeroDigest)
    \/ Sha256(bytes) % 256 = output % 256

is_journal_valid_empty_any(bytes, output) ==
    \/ bytes = <<>>
    \/ Sha256(bytes) = output

is_journal_valid(bytes, output) ==
    \/ (bytes = <<>> /\ output = ZeroDigest)
    \/ Sha256(bytes) = output

next_prev_stale(prev, md) == prev

\* prev_image_id = metadata.post.compute_image_id()
next_prev(prev, md) == SystemState_compute_image_id(md.post)

\* the exit code checked before the image ID
loop_body_exit_first(receipt, c, prev, k) ==
    LET v == SegmentReceipt_verify_with_context(receipt, c)
        md == get_metadata(receipt)
        e1 == At(v.events, k)
        e2 == e1 \o <<<<"get_metadata", k>>>>
        e3 == e2 \o <<<<"exit_check", k>>>>
        e4 == e3 \o <<<<"image_check", k>>>>
    IN  IF v.result # "Ok" THEN [result |-> v.result, prev |-> prev, events |-> e1]
        ELSE IF ~md.ok THEN [result |-> md.err, prev |-> prev, events |-> e2]
        ELSE IF ~exit_is_split(md.val.exit_code)
        THEN [result |-> "UnexpectedExitCode", prev |-> prev, events |-> e3]
        ELSE IF ~image_matches(prev, md.val.pre)
        THEN [result |-> "ImageVerificationError", prev |-> prev, events |-> e4]
        ELSE [result |-> "Ok", prev |-> next_prev(prev, md.val), events |-> e4]

\* the metadata decoded before the receipt is verified
loop_body_decode_first(receipt, c, prev, k) ==
    LET v == SegmentReceipt_verify_with_context(receipt, c)
        md == get_metadata(receipt)
        e1 == <<<<"get_metadata", k>>>>
        e2 == e1 \o At(v.events, k)
        e3 == e2 \o <<<<"image_check", k>>>>
        e4 == e3 \o <<<<"exit_check", k>>>>
    IN  IF ~md.ok THEN [result |-> md.err, prev |-> prev, events |-> e1]
        ELSE IF v.result # "Ok" THEN [result |-> v.result, prev |-> prev, events |-> e2]
        ELSE IF ~image_matches(prev, md.val.pre)
        THEN [result |-> "ImageVerificationError", prev |-> prev, events |-> e3]
        ELSE IF ~exit_is_split(md.val.exit_code)
        THEN [result |-> "UnexpectedExitCode", prev |-> prev, events |-> e4]
        ELSE [result |-> "Ok", prev |-> next_prev(prev, md.val), events |-> e4]

\* a receipt whose index is not its position is rejected
loop_body_checks_index(receipt, c, prev, k) ==
    LET v == SegmentReceipt_verify_with_context(receipt, c)
        md == get_metadata(receipt)
        e1 == At(v.events, k)
        e2 == e1 \o <<<<"get_metadata", k>>>>
        e3 == e2 \o <<<<"image_check", k>>>>
        e4 == e3 \o <<<<"exit_check", k>>>>
    IN  IF receipt.index # k - 1
        THEN [result |-> "ReceiptFormatError", prev |-> prev, events |-> <<>>]
        ELSE IF v.result # "Ok" THEN [result |-> v.result, prev |-> prev, events |-> e1]
        ELSE IF ~md.ok THEN [result |-> md.err, prev |-> prev, events |-> e2]
        ELSE IF ~image_matches(prev, md.val.pre)
        THEN [result |-> "ImageVerificationError", prev |-> prev, events |-> e3]
        ELSE IF ~exit_is_split(md.val.exit_code)
        THEN [result |-> "UnexpectedExitCode", prev |-> prev, events |-> e4]
        ELSE [result |-> "Ok", prev |-> next_prev(prev, md.val), events |-> e4]

\* The body of the loop over the non-final receipts, for the receipt at k.
loop_body(receipt, c, prev, k) ==
    LET v == SegmentReceipt_verify_with_context(receipt, c)
        md == get_metadata(receipt)
        e1 == At(v.events, k)
        e2 == e1 \o <<<<"get_metadata", k>>>>
        e3 == e2 \o <<<<"image_check", k>>>>
        e4 == e3 \o <<<<"exit_check", k>>>>
    IN  IF v.result # "Ok" THEN [result |-> v.result, prev |-> prev, events |-> e1]
        ELSE IF ~md.ok THEN [result |-> md.err, prev |-> prev, events |-> e2]
        ELSE IF ~image_matches(prev, md.val.pre)
        THEN [result |-> "ImageVerificationError", prev |-> prev, events |-> e3]
        ELSE IF ~exit_is_split(md.val.exit_code)
        THEN [result |-> "UnexpectedExitCode", prev |-> prev, events |-> e4]
        ELSE [result |-> "Ok", prev |-> next_prev(prev, md.val), events |-> e4]

\* The final receipt: verify, decode, continuity into the last segment.
\* the final receipt taken without the check of its pre state
final_body_unchained(receipt, c, prev, k) ==
    LET v == SegmentReceipt_verify_with_context(receipt, c)
        md == get_metadata(receipt)
        e1 == At(v.events, k)
        e2 == e1 \o <<<<"get_metadata", k>>>>
        e3 == e2 \o <<<<"image_check", k>>>>
    IN  IF v.result # "Ok" THEN [result |-> v.result, md |-> NoMetadata, events |-> e1]
        ELSE IF ~md.ok THEN [result |-> md.err, md |-> NoMetadata, events |-> e2]
        ELSE [result |-> "Ok", md |-> md.val, events |-> e3]

final_body(receipt, c, prev, k) ==
    LET v == SegmentReceipt_verify_with_context(receipt, c)
        md == get_metadata(receipt)
        e1 == At(v.events, k)
        e2 == e1 \o <<<<"get_metadata", k>>>>
        e3 == e2 \o <<<<"image_check", k>>>>
    IN  IF v.result # "Ok" THEN [result |-> v.result, md |-> NoMetadata, events |-> e1]
        ELSE IF ~md.ok THEN [result |-> md.err, md |-> NoMetadata, events |-> e2]
        ELSE IF ~image_matches(prev, md.val.pre)
        THEN [result |-> "ImageVerificationError", md |-> NoMetadata, events |-> e3]
        ELSE [result |-> "Ok", md |-> md.val, events |-> e3]

final_exit_any(md) == "Ok"

final_exit(md) ==
    IF md.exit_code = SystemSplit THEN "UnexpectedExitCode" ELSE "Ok"

split_last_none_ok == "Ok"

\* the error of split_last().ok_or(..) on an empty list
split_last_none == "ReceiptFormatError"

Inputs == <<segments, journal, image_id, ctx>>
Previous == <<run, prevResult, prevSegments, prevJournal, tamper>>
Variant == <<parPc, parStage, parResult>>

\* split_last and the initialisation of prev_image_id
Begin ==
    /\ pc = "start"
    /\ IF segments = <<>>
       THEN /\ result' = split_last_none
            /\ pc' = "done"
            /\ UNCHANGED <<i, prev_image_id>>
       ELSE /\ prev_image_id' = image_id
            /\ i' = 1
            /\ pc' = IF Len(segments) = 1 THEN "final" ELSE "loop"
            /\ UNCHANGED result
    /\ UNCHANGED <<Inputs, Previous, metadata, log, Variant>>

\* one iteration of `for receipt in receipts`
LoopIter ==
    /\ pc = "loop"
    /\ LET r == loop_body(segments[i], ctx, prev_image_id, i)
       IN  /\ log' = log \o r.events
           /\ IF r.result # "Ok"
              THEN /\ result' = r.result
                   /\ pc' = "done"
                   /\ UNCHANGED <<i, prev_image_id>>
              ELSE /\ prev_image_id' = r.prev
                   /\ i' = i + 1
                   /\ pc' = IF i + 1 = Len(segments) THEN "final" ELSE "loop"
                   /\ UNCHANGED result
    /\ UNCHANGED <<Inputs, Previous, metadata, Variant>>

FinalReceipt ==
    /\ pc = "final"
    /\ LET r == final_body(segments[i], ctx, prev_image_id, i)
       IN  /\ log' = log \o r.events
           /\ IF r.result # "Ok"
              THEN /\ result' = r.result
                   /\ pc' = "done"
                   /\ UNCHANGED metadata
              ELSE /\ metadata' = r.md
                   /\ pc' = "journal"
                   /\ UNCHANGED result
    /\ UNCHANGED <<Inputs, Previous, i, prev_image_id, Variant>>

\* the journal taken out of the receipt by the check
JournalCheck_consuming ==
    /\ pc = "journal"
    /\ log' = Append(log, <<"journal_check", i>>)
    /\ IF ~is_journal_valid(journal, metadata.output)
       THEN /\ result' = "JournalDigestMismatch"
            /\ pc' = "done"
       ELSE /\ pc' = "exit"
            /\ UNCHANGED result
    /\ journal' = <<>>
    /\ UNCHANGED <<segments, image_id, ctx, Previous, i, prev_image_id, metadata, Variant>>

JournalCheck ==
    /\ pc = "journal"
    /\ log' = Append(log, <<"journal_check", i>>)
    /\ IF ~is_journal_valid(journal, metadata.output)
       THEN /\ result' = "JournalDigestMismatch"
            /\ pc' = "done"
       ELSE /\ pc' = "exit"
            /\ UNCHANGED result
    /\ UNCHANGED <<Inputs, Previous, i, prev_image_id, metadata, Variant>>

FinalExitCheck ==
    /\ pc = "exit"
    /\ log' = Append(log, <<"final_exit_check", i>>)
    /\ result' = final_exit(metadata)
    /\ pc' = "done"
    /\ UNCHANGED <<Inputs, Previous, i, prev_image_id, metadata, Variant>>

(***************************************************************************)
(* A second call on a receipt changed in one place after a call that       *)
(* returned Ok.                                                            *)
(***************************************************************************)
NoTamper == [kind |-> "none", at |-> 0]

\* The values a recorded pc is drawn from.
PcWords == {0, 4, 8, 12}

FlipBit(b) == IF b % 2 = 0 THEN b + 1 ELSE b - 1

Restart ==
    /\ pc' = "start"
    /\ i' = 0
    /\ prev_image_id' = ZeroDigest
    /\ metadata' = NoMetadata
    /\ result' = "none"
    /\ log' = <<>>
    /\ run' = 2
    /\ prevResult' = result
    /\ prevSegments' = segments
    /\ prevJournal' = journal
    /\ UNCHANGED Variant

CorruptPostPc ==
    /\ pc = "done" /\ run = 1 /\ result = "Ok"
    /\ \E k \in 1..Len(segments), w \in PcWords \ {0} :
        /\ w # segments[k].seal.post_pc
        /\ segments' = [segments EXCEPT ![k].seal.post_pc = w]
        /\ tamper' = [kind |-> "post_pc", at |-> k]
    /\ Restart
    /\ UNCHANGED <<journal, image_id, ctx>>

FlipJournalBit ==
    /\ pc = "done" /\ run = 1 /\ result = "Ok"
    /\ \E k \in 1..Len(journal) :
        /\ journal' = [journal EXCEPT ![k] = FlipBit(journal[k])]
        /\ tamper' = [kind |-> "journal", at |-> k]
    /\ Restart
    /\ UNCHANGED <<segments, image_id, ctx>>

Next ==
    \/ Begin
    \/ LoopIter
    \/ FinalReceipt
    \/ JournalCheck
    \/ FinalExitCheck
    \/ CorruptPostPc
    \/ FlipJournalBit

(***************************************************************************)
(* Inputs.  A family fixes, per field, the set its values are drawn from;  *)
(* the sessions of a family are all sequences of at most MaxSegs receipts  *)
(* over the product of the field sets.                                     *)
(***************************************************************************)
SeqsUpTo(S, n) == UNION {[1..k -> S] : k \in 0..n}

ReceiptsOf(d) ==
    [seal : [proof : d.proof, control_id : d.control_id,
             pre_root : d.pre_root, pre_pc : d.pre_pc,
             post_root : d.post_root, post_pc : d.post_pc,
             input : d.input, output : d.output,
             sys_exit : d.sys_exit, user_exit : d.user_exit],
     index : d.index,
     hashfn : d.hashfn]

\* An honest chain: every receipt runs from state (root 1, pc 4) to itself.
BaseFamily ==
    [proof |-> {"valid"}, control_id |-> {21},
     pre_root |-> {1}, pre_pc |-> {4}, post_root |-> {1}, post_pc |-> {8},
     input |-> {ZeroDigest}, output |-> {ZeroDigest},
     sys_exit |-> {0, 2}, user_exit |-> {0},
     index |-> {0}, hashfn |-> {"sha-256"},
     journal |-> {<<>>},
     image_id |-> {compute_image_id(1, 4)},
     ctx |-> {DefaultContext}]

\* image chain: pre and post states and the expected image ID vary
ChainFamily ==
    [BaseFamily EXCEPT
        !.pre_pc = {4, 8}, !.post_pc = {8, 12}, !.post_root = {1, 2},
        !.image_id = {compute_image_id(1, 4), compute_image_id(1, 8), ZeroDigest}]

\* exit codes: every (sys_exit, user_exit) pair, with and without a chain break
ExitFamily ==
    [BaseFamily EXCEPT
        !.sys_exit = 0..3, !.user_exit = {0, 7}, !.pre_pc = {4, 8}]

\* journal binding: journals and recorded outputs vary
JournalFamily ==
    [BaseFamily EXCEPT
        !.output = {ZeroDigest, Sha256(<<>>), Sha256(<<1>>), Sha256(<<1, 0>>), BadBytes},
        !.journal = SeqsUpTo(Bytes, MaxJournalLen)]

\* segment verification: hash suite, proof outcome and control ID vary
SuiteFamily ==
    [BaseFamily EXCEPT
        !.hashfn = {"sha-256", "keccak"},
        !.proof = {"valid", "invalid", "malformed"},
        !.control_id = {11, 31, 99},
        !.sys_exit = {2},
        !.ctx = {DefaultContext, [suites |-> {"keccak"}]}]

\* several kinds of defect in one session
MixedFamily ==
    [BaseFamily EXCEPT
        !.control_id = {21, 99}, !.pre_pc = {4, 8},
        !.output = {ZeroDigest, Sha256(<<1>>)},
        !.journal = {<<>>, <<1>>}]

Families == {ChainFamily, ExitFamily, JournalFamily, SuiteFamily, MixedFamily}

InitWith(d) ==
    /\ segments \in SeqsUpTo(ReceiptsOf(d), MaxSegs)
    /\ journal \in d.journal
    /\ image_id \in d.image_id
    /\ ctx \in d.ctx
    /\ pc = "start"
    /\ i = 0
    /\ prev_image_id = ZeroDigest
    /\ metadata = NoMetadata
    /\ result = "none"
    /\ log = <<>>
    /\ run = 1
    /\ prevResult = "none"
    /\ prevSegments = <<>>
    /\ prevJournal = <<>>
    /\ tamper = NoTamper
    /\ parPc = "idle"
    /\ parStage = [k \in 1..Len(segments) |-> 0]
    /\ parResult = "none"

Init == \E d \in Families : InitWith(d)

Spec == Init /\ [][Next]_vars

(***************************************************************************)
(* Repeated calls: the same receipt verified again, unchanged or with the  *)
(* index of one receipt changed, after a call that returned any result.    *)
(***************************************************************************)
IndexValues == {0, 1, 2}

Reverify ==
    /\ pc = "done" /\ run = 1
    /\ tamper' = [kind |-> "repeat", at |-> 0]
    /\ Restart
    /\ UNCHANGED Inputs

Reindex ==
    /\ pc = "done" /\ run = 1
    /\ \E k \in 1..Len(segments), x \in IndexValues :
        /\ x # segments[k].index
        /\ segments' = [segments EXCEPT ![k].index = x]
        /\ tamper' = [kind |-> "index", at |-> k]
    /\ Restart
    /\ UNCHANGED <<journal, image_id, ctx>>

NextRepeat ==
    \/ Begin
    \/ LoopIter
    \/ FinalReceipt
    \/ JournalCheck
    \/ FinalExitCheck
    \/ Reverify
    \/ Reindex

\* index values that repeat, run backwards or miss the position, over
\* receipts that fail each kind of check
RepeatFamily ==
    [BaseFamily EXCEPT
        !.index = {0, 1}, !.control_id = {21, 99},
        !.journal = {<<>>, <<1>>},
        !.image_id = {compute_image_id(1, 4), ZeroDigest}]

InitRepeat == InitWith(RepeatFamily)

SpecRepeat == InitRepeat /\ [][NextRepeat]_vars

(***************************************************************************)
(* The gather-then-check variant of session verification: steps (a) and    *)
(* (b) of the loop are run on the receipts in any order and interleaving,  *)
(* then the continuity, exit-code and journal checks are made in segment   *)
(* order on the gathered metadata.  The variant is run on the inputs of a  *)
(* finished sequential call.                                               *)
(***************************************************************************)
NoStage == [k \in 1..Len(segments) |-> 0]

ParReturn(r) ==
    /\ parResult' = r
    /\ parPc' = "done"
    /\ parStage' = NoStage

Sequential == <<pc, i, prev_image_id, metadata, result, log>>

ParBegin ==
    /\ pc = "done" /\ run = 1 /\ parPc = "idle"
    /\ IF segments = <<>>
       THEN ParReturn("ReceiptFormatError")
       ELSE parPc' = "gather" /\ UNCHANGED <<parStage, parResult>>
    /\ UNCHANGED <<Inputs, Previous, Sequential>>

\* step (a) on any receipt not yet verified
ParVerify ==
    /\ parPc = "gather"
    /\ \E k \in 1..Len(segments) :
        /\ parStage[k] = 0
        /\ LET v == SegmentReceipt_verify_with_context(segments[k], ctx)
           IN  IF v.result # "Ok"
               THEN ParReturn(v.result)
               ELSE /\ parStage' = [parStage EXCEPT ![k] = 1]
                    /\ UNCHANGED <<parPc, parResult>>
    /\ UNCHANGED <<Inputs, Previous, Sequential>>

\* step (b) on any verified receipt
ParMetadata ==
    /\ parPc = "gather"
    /\ \E k \in 1..Len(segments) :
        /\ parStage[k] = 1
        /\ LET md == get_metadata(segments[k])
           IN  IF ~md.ok
               THEN ParReturn(md.err)
               ELSE /\ parStage' = [parStage EXCEPT ![k] = 2]
                    /\ UNCHANGED <<parPc, parResult>>
    /\ UNCHANGED <<Inputs, Previous, Sequential>>

\* steps (c) to (e) from the receipt at k on, then steps 6 to 8 on the last
RECURSIVE ParChain(_, _)
ParChain(k, prev) ==
    LET md == get_metadata(segments[k]).val
        pre_id == compute_image_id(md.pre.merkle_root, md.pre.pc)
        post_id == compute_image_id(md.post.merkle_root, md.post.pc)
    IN  IF prev # pre_id THEN "ImageVerificationError"
        ELSE IF k < Len(segments)
        THEN IF md.exit_code # SystemSplit THEN "UnexpectedExitCode"
             ELSE ParChain(k + 1, post_id)
        ELSE IF ~((journal = <<>> /\ md.output = ZeroDigest) \/ Sha256(journal) = md.output)
        THEN "JournalDigestMismatch"
        ELSE IF md.exit_code = SystemSplit THEN "UnexpectedExitCode"
        ELSE "Ok"

ParCheck ==
    /\ parPc = "gather"
    /\ \A k \in 1..Len(segments) : parStage[k] = 2
    /\ ParReturn(ParChain(1, image_id))
    /\ UNCHANGED <<Inputs, Previous, Sequential>>

NextPar ==
    \/ Begin
    \/ LoopIter
    \/ FinalReceipt
    \/ JournalCheck
    \/ FinalExitCheck
    \/ ParBegin
    \/ ParVerify
    \/ ParMetadata
    \/ ParCheck

\* receipts that fail step (a), step (b) or a later check, anywhere in the list
ParFamily ==
    [BaseFamily EXCEPT
        !.control_id = {21, 99}, !.post_pc = {3, 8}, !.pre_pc = {4, 8},
        !.journal = {<<>>, <<1>>}]

InitPar == InitWith(ParFamily)

SpecPar == InitPar /\ [][NextPar]_vars

\* metadata decoding: recorded post pc below, at and above one word, and
\* sys_exit values inside and outside the wire encoding
DecodeFamily ==
    [BaseFamily EXCEPT
        !.post_pc = {0, 3, 4, 8}, !.sys_exit = {0, 2, 4}, !.user_exit = {7}]

InitDecode == \E d \in {DecodeFamily, ExitFamily, MixedFamily} : InitWith(d)

SpecDecode == InitDecode /\ [][Next]_vars

(***************************************************************************)
(* Properties.                                                             *)
(***************************************************************************)
N == Len(segments)
Done == pc = "done"
Logged(e, k) == \E x \in 1..Len(log) : log[x] = <<e, k>>

AllowedControlIds == POSEIDON_CONTROL_ID \cup SHA256_CONTROL_ID \cup BLAKE2B_CONTROL_ID

\* The receipt at k passes SegmentReceipt::verify_with_context: its hash
\* suite is registered, its proof checks and its control ID is allowed.
Verifies(k) ==
    /\ segments[k].hashfn \in ctx.suites
    /\ segments[k].seal.proof = "valid"
    /\ segments[k].seal.control_id \in AllowedControlIds

Decodes(k) == get_metadata(segments[k]).ok
Meta(k) == get_metadata(segments[k]).val
PreId(k) == compute_image_id(Meta(k).pre.merkle_root, Meta(k).pre.pc)
PostId(k) == compute_image_id(Meta(k).post.merkle_root, Meta(k).post.pc)

\* The image ID the receipt at k must continue from.
Link(k) ==
    IF k = 1 THEN image_id = PreId(1)
    ELSE Decodes(k - 1) /\ PostId(k - 1) = PreId(k)

\* Every receipt before k passed the four checks of the loop body.
PassesBefore(k) ==
    \A j \in 1..(k - 1) :
        Verifies(j) /\ Decodes(j) /\ Link(j) /\ Meta(j).exit_code = SystemSplit

\* Every check before the journal check passes.
ReachesJournal ==
    /\ N >= 1
    /\ PassesBefore(N)
    /\ Verifies(N) /\ Decodes(N) /\ Link(N)

JournalMatches ==
    \/ (journal = <<>> /\ Meta(N).output = ZeroDigest)
    \/ Sha256(journal) = Meta(N).output

\* C1: when verify_with_context returns Ok the session has at least one
\* segment, image_id is the image ID of segment 0's decoded pre state and
\* every segment's post image ID is the next segment's pre image ID; the
\* first break of the chain, reached with every earlier check passing, is
\* answered with ImageVerificationError.
C1_ChainContinuity ==
    Done =>
        /\ result = "Ok" => (N >= 1 /\ \A k \in 1..N : Decodes(k) /\ Link(k))
        /\ \A k \in 1..N :
            (PassesBefore(k) /\ Verifies(k) /\ Decodes(k) /\ ~Link(k))
                => result = "ImageVerificationError"

C1_Witness ==
    /\ Done /\ result = "Ok" /\ run = 1
    /\ N >= 3
    /\ PostId(1) # PreId(1)

\* A second call on a session that returned Ok, after the recorded post pc
\* of the receipt at k was changed so that its post image ID changed.
PrevPostId(k) ==
    LET md == get_metadata(prevSegments[k]).val
    IN  compute_image_id(md.post.merkle_root, md.post.pc)

PostPcCorrupted(k) ==
    /\ Done /\ run = 2 /\ prevResult = "Ok"
    /\ tamper = [kind |-> "post_pc", at |-> k]
    /\ N >= 2
    /\ PostId(k) # PrevPostId(k)

\* C2 as stated: corrupting the decoded post.pc of any one segment of a
\* multi-segment session that verified, the last included, gives
\* ImageVerificationError.
C2_AnySegmentPostPc ==
    \A k \in 1..N : PostPcCorrupted(k) => result = "ImageVerificationError"

\* C2, amended: corrupting the decoded post.pc of a non-final segment of a
\* multi-segment session that verified gives ImageVerificationError; the
\* post state of the final segment is compared with nothing, and the call
\* still returns Ok.
C2_NonFinalSegmentPostPc ==
    \A k \in 1..N :
        PostPcCorrupted(k) =>
            IF k < N THEN result = "ImageVerificationError" ELSE result = "Ok"

C2_Witness ==
    /\ PostPcCorrupted(2)
    /\ N = 3
    /\ result = "ImageVerificationError"

\* C3: a non-final segment whose decoded exit code is not SystemSplit is
\* never accepted, and when it verifies, its pre image ID matches and all
\* earlier segments passed, the result is UnexpectedExitCode.
C3_NonFinalExitCode ==
    Done =>
        \A k \in 1..(N - 1) :
            (Decodes(k) /\ Meta(k).exit_code # SystemSplit) =>
                /\ result # "Ok"
                /\ (PassesBefore(k) /\ Verifies(k) /\ Link(k))
                    => result = "UnexpectedExitCode"

C3_Witness ==
    /\ Done /\ result = "UnexpectedExitCode"
    /\ N = 3 /\ i = 2
    /\ PassesBefore(2) /\ Verifies(2) /\ Decodes(2) /\ Link(2)
    /\ Meta(2).exit_code = Paused(7)

\* C4: a session whose final (or only) segment has exit code SystemSplit is
\* never accepted, and is answered with UnexpectedExitCode when every other
\* check passes; a final Halted(c) or Paused(c) passes the check.
C4_FinalExitCode ==
    Done =>
        /\ (N >= 1 /\ Decodes(N) /\ Meta(N).exit_code = SystemSplit) =>
            /\ result # "Ok"
            /\ (ReachesJournal /\ JournalMatches) => result = "UnexpectedExitCode"
        /\ (ReachesJournal /\ JournalMatches /\ Meta(N).exit_code # SystemSplit)
            => result = "Ok"

C4_Witness ==
    /\ Done /\ result = "UnexpectedExitCode"
    /\ N = 1
    /\ Logged("final_exit_check", 1)
    /\ Meta(1).exit_code = SystemSplit

\* C5: with every segment verifying and chaining, the journal check passes
\* when the final segment's output is SHA256(journal); a non-empty journal
\* whose SHA-256 differs from that output gives JournalDigestMismatch, as
\* does flipping a bit of the journal of a session that returned Ok; Ok is
\* never returned on a mismatch.  Only the final segment's output counts.
C5_JournalBinding ==
    Done =>
        /\ (ReachesJournal /\ Sha256(journal) = Meta(N).output) =>
            /\ Logged("final_exit_check", N)
            /\ result \in {"Ok", "UnexpectedExitCode"}
        /\ (ReachesJournal /\ journal # <<>> /\ Sha256(journal) # Meta(N).output)
            => result = "JournalDigestMismatch"
        /\ result = "Ok" => JournalMatches
        /\ (run = 2 /\ prevResult = "Ok" /\ tamper.kind = "journal")
            => result = "JournalDigestMismatch"

C5_Witness ==
    /\ Done /\ run = 2 /\ prevResult = "Ok" /\ tamper.kind = "journal"
    /\ N >= 2
    /\ Len(journal) = 2
    /\ result = "JournalDigestMismatch"
    /\ Meta(1).output # Meta(N).output

\* C6 as stated: every accepted session with an empty journal has an
\* all-zero output in its final segment.
C6_EmptyJournalZeroOutput ==
    (Done /\ result = "Ok" /\ journal = <<>>) => Meta(N).output = ZeroDigest

\* C6, amended: every accepted session with an empty journal has, as the
\* output of its final segment, the all-zero digest or the SHA-256 digest
\* of the empty byte string.
C6_EmptyJournalOutput ==
    (Done /\ result = "Ok" /\ journal = <<>>) =>
        Meta(N).output \in {ZeroDigest, Sha256(<<>>)}

C6_Witness ==
    /\ Done /\ result = "Ok" /\ journal = <<>>
    /\ Meta(N).output = Sha256(<<>>)

\* C7: a receipt whose hashfn is not registered in ctx.suites is answered
\* with InvalidHashSuite, and neither the external verifier nor check_code
\* is called for it; the default context registers exactly blake2b,
\* poseidon and sha-256.
C7_UnregisteredHashSuite ==
    /\ DefaultContext.suites = {"blake2b", "poseidon", "sha-256"}
    /\ \A k \in 1..N :
        segments[k].hashfn \notin ctx.suites =>
            /\ ~Logged("zkp_verify", k)
            /\ ~Logged("check_code", k)
            /\ Logged("suites_get", k) =>
                (Done /\ i = k /\ result = "InvalidHashSuite")

C7_Witness ==
    /\ Done /\ result = "InvalidHashSuite"
    /\ ctx = DefaultContext
    /\ i >= 2
    /\ segments[i].seal.proof = "valid"
    /\ segments[i].seal.control_id \in AllowedControlIds
    /\ Logged("suites_get", i)

\* C8: check_code answers Ok exactly for the control IDs of the union of
\* the three lists, whatever hashfn the receipt names, and
\* ControlVerificationError for every other digest; a receipt whose proof
\* asserts a control ID outside the union never verifies.
C8_ControlIdGate ==
    /\ \A c \in ControlIds :
        check_code(c) = IF c \in AllowedControlIds
                        THEN "Ok" ELSE "ControlVerificationError"
    /\ \A k \in 1..N :
        LET r == segments[k]
            v == SegmentReceipt_verify_with_context(r, ctx)
        IN  /\ r.seal.control_id \notin AllowedControlIds =>
                /\ v.result # "Ok"
                /\ (r.hashfn \in ctx.suites /\ r.seal.proof # "malformed")
                    => v.result = "ControlVerificationError"
                /\ Logged("check_code", k) =>
                    (Done /\ i = k /\ result = "ControlVerificationError")
            /\ Verifies(k) => v.result = "Ok"
    /\ (Done /\ result = "Ok") =>
        \A k \in 1..N : segments[k].seal.control_id \in AllowedControlIds

C8_Witness ==
    /\ Done /\ result = "ControlVerificationError"
    /\ segments[i].seal.proof = "valid"
    /\ segments[i].hashfn = "sha-256"
    /\ ctx = DefaultContext
    /\ Logged("check_code", i)

\* C9: on an empty segments list verify_with_context returns
\* ReceiptFormatError, whatever ctx, image_id and journal are, and neither
\* verifies a segment nor checks the journal.
C9_EmptySegments ==
    segments = <<>> =>
        /\ pc \in {"start", "done"}
        /\ log = <<>>
        /\ Done => result = "ReceiptFormatError"

C9_Witness ==
    /\ Done /\ segments = <<>>
    /\ journal # <<>>
    /\ result = "ReceiptFormatError"

\* C10: verify_with_context returns Ok if and only if segments is not empty,
\* every segment verifies and decodes, image_id is the image ID of the first
\* pre state, each post image ID is the next pre image ID, every non-final
\* exit code is SystemSplit, the final one is not, and the journal is valid
\* against the final segment's output.
C10_OkIffAllChecks ==
    Done =>
        (result = "Ok" <=>
            /\ N >= 1
            /\ \A k \in 1..N : Verifies(k) /\ Decodes(k)
            /\ \A k \in 1..N : Link(k)
            /\ \A k \in 1..(N - 1) : Meta(k).exit_code = SystemSplit
            /\ Meta(N).exit_code # SystemSplit
            /\ JournalMatches)

C10_Witness ==
    /\ Done /\ result = "Ok" /\ run = 1
    /\ N >= 2
    /\ journal = <<1, 0>>
    /\ ctx = DefaultContext

\* C11: make_exit_code maps sys_exit 0 to Halted(user_exit), 1 to
\* Paused(user_exit), 2 to SystemSplit and every other value to
\* ReceiptFormatError; it never gives SessionLimit, and no decoded metadata
\* carries SessionLimit.
C11_MakeExitCode ==
    /\ \A k \in 1..N :
        LET sys == segments[k].seal.sys_exit
            user == segments[k].seal.user_exit
            r == make_exit_code(sys, user)
        IN  /\ sys = 0 => (r.ok /\ r.val = [tag |-> "Halted", code |-> user])
            /\ sys = 1 => (r.ok /\ r.val = [tag |-> "Paused", code |-> user])
            /\ sys = 2 => (r.ok /\ r.val = [tag |-> "SystemSplit", code |-> 0])
            /\ sys \notin {0, 1, 2} => (~r.ok /\ r.err = "ReceiptFormatError")
            /\ sys \notin {0, 1, 2} => ~Decodes(k)
            /\ Decodes(k) => Meta(k).exit_code.tag \in {"Halted", "Paused", "SystemSplit"}
    /\ pc \in {"journal", "exit"} => metadata.exit_code.tag # "SessionLimit"

C11_Witness ==
    /\ Done /\ result = "ReceiptFormatError"
    /\ i >= 2
    /\ Logged("get_metadata", i)
    /\ segments[i].seal.sys_exit = 4
    /\ segments[i].seal.post_pc >= 4

\* C14: decode_from_io gives post.pc as the recorded post pc minus 4 and
\* fails with ReceiptFormatError when the recorded value is below 4, with
\* no wrap-around; pre.pc is returned as recorded.
C14_PostPcAdjust ==
    \A k \in 1..N :
        LET io == segments[k].seal
            d == decode_from_io(io)
        IN  /\ io.post_pc < 4 => (~d.ok /\ d.err = "ReceiptFormatError")
            /\ d.ok =>
                /\ d.val.post.pc = io.post_pc - 4
                /\ d.val.post.pc >= 0
                /\ d.val.pre.pc = io.pre_pc
            /\ (io.post_pc < 4 /\ Logged("get_metadata", k)) =>
                (Done /\ i = k /\ result = "ReceiptFormatError")

C14_Witness ==
    /\ Done /\ result = "ReceiptFormatError"
    /\ i >= 2
    /\ Logged("get_metadata", i)
    /\ segments[i].seal.post_pc = 3
    /\ segments[i].seal.sys_exit <= 2

\* The pair get_exit_code_pairs gives for the exit code decoded from (sys, user).
PairsOfPair(sys, user) ==
    get_exit_code_pairs([exit_code |-> make_exit_code(sys, user).val])

\* make_exit_code applied to the pair get_exit_code_pairs gives for md
\* gives md's exit code back.
ExitCodeRoundTrip(md) ==
    LET p == get_exit_code_pairs(md)
    IN  /\ p.ok
        /\ make_exit_code(p.val[1], p.val[2]).ok
        /\ make_exit_code(p.val[1], p.val[2]).val = md.exit_code

RoundTripFromExitCode ==
    /\ \A k \in 1..N : Decodes(k) => ExitCodeRoundTrip(Meta(k))
    /\ IF metadata.exit_code.tag = "SessionLimit"
       THEN /\ ~get_exit_code_pairs(metadata).ok
            /\ get_exit_code_pairs(metadata).err = "ReceiptFormatError"
       ELSE ExitCodeRoundTrip(metadata)

\* C17 as stated: make_exit_code gives back the exit code of every metadata
\* with Halted(c), Paused(c) or SystemSplit from its pair;
\* get_exit_code_pairs fails with ReceiptFormatError on SessionLimit; and
\* for every (sys_exit, user_exit) with sys_exit in {0, 1, 2},
\* get_exit_code_pairs of make_exit_code(sys_exit, user_exit) is
\* (sys_exit, user_exit).
C17_RoundTripEveryPair ==
    /\ RoundTripFromExitCode
    /\ \A k \in 1..N :
        LET sys == segments[k].seal.sys_exit
            user == segments[k].seal.user_exit
        IN  sys \in {0, 1, 2} =>
                /\ PairsOfPair(sys, user).ok
                /\ PairsOfPair(sys, user).val = <<sys, user>>

\* C17, amended: as stated, except that get_exit_code_pairs of
\* make_exit_code(sys_exit, user_exit) is (sys_exit, user_exit) for
\* sys_exit in {0, 1} and (2, 0) for sys_exit 2, whose user_exit
\* SystemSplit does not keep.
C17_ExitCodeRoundTrip ==
    /\ RoundTripFromExitCode
    /\ \A k \in 1..N :
        LET sys == segments[k].seal.sys_exit
            user == segments[k].seal.user_exit
        IN  sys \in {0, 1, 2} =>
                /\ PairsOfPair(sys, user).ok
                /\ PairsOfPair(sys, user).val =
                       IF sys = 2 THEN <<2, 0>> ELSE <<sys, user>>

C17_Witness ==
    /\ pc = "exit"
    /\ metadata.exit_code = [tag |-> "Paused", code |-> 7]
    /\ \E k \in 1..N :
        segments[k].seal.sys_exit = 2 /\ segments[k].seal.user_exit = 7

\* The place of a call or check in the order of one receipt's checks.
Rank(e) ==
    CASE e = "suites_get" -> 1
      [] e = "zkp_verify" -> 2
      [] e = "check_code" -> 3
      [] e = "get_metadata" -> 4
      [] e = "image_check" -> 5
      [] e = "exit_check" -> 6
      [] e = "journal_check" -> 7
      [] e = "final_exit_check" -> 8

\* The log runs through the receipts in list order and, within a receipt,
\* through its checks in the fixed order.
LogOrdered ==
    \A x \in 1..(Len(log) - 1) :
        \/ log[x][2] < log[x + 1][2]
        \/ (log[x][2] = log[x + 1][2] /\ Rank(log[x][1]) < Rank(log[x + 1][1]))

\* The first check the receipt at k fails, "none" if it passes them all.
SegFail(k) ==
    IF ~Verifies(k) THEN "verify"
    ELSE IF ~Decodes(k) THEN "decode"
    ELSE IF ~Link(k) THEN "image"
    ELSE IF k < N /\ Meta(k).exit_code # SystemSplit THEN "exit"
    ELSE "none"

\* The first receipt that fails a check, 0 if none does.
RECURSIVE FirstBadFrom(_)
FirstBadFrom(k) ==
    IF k > N THEN 0
    ELSE IF SegFail(k) # "none" THEN k
    ELSE FirstBadFrom(k + 1)

\* The error of the first failing check, and the last entry of the log of a
\* call that stops at it.
FirstFailure ==
    LET bad == FirstBadFrom(1)
        fail == SegFail(bad)
    IN  IF N = 0 THEN [result |-> "ReceiptFormatError", last |-> <<>>]
        ELSE IF bad # 0 THEN
            CASE fail = "verify" ->
                    LET v == SegmentReceipt_verify_with_context(segments[bad], ctx)
                    IN  [result |-> v.result, last |-> <<v.events[Len(v.events)], bad>>]
              [] fail = "decode" ->
                    [result |-> "ReceiptFormatError", last |-> <<"get_metadata", bad>>]
              [] fail = "image" ->
                    [result |-> "ImageVerificationError", last |-> <<"image_check", bad>>]
              [] fail = "exit" ->
                    [result |-> "UnexpectedExitCode", last |-> <<"exit_check", bad>>]
        ELSE IF ~JournalMatches
        THEN [result |-> "JournalDigestMismatch", last |-> <<"journal_check", N>>]
        ELSE IF Meta(N).exit_code = SystemSplit
        THEN [result |-> "UnexpectedExitCode", last |-> <<"final_exit_check", N>>]
        ELSE [result |-> "Ok", last |-> <<"final_exit_check", N>>]

\* Every check of every receipt before k was performed.
AllLoggedBefore(k) ==
    \A j \in 1..(k - 1) :
        \A e \in {"suites_get", "zkp_verify", "check_code", "get_metadata",
                  "image_check", "exit_check"} : Logged(e, j)

\* C12: the checks run in the fixed order (per non-final receipt: verify,
\* decode, image ID, exit code; final receipt: verify, decode, image ID;
\* journal; final exit code); the result is the error of the first failing
\* check, a receipt's own error unchanged, and no later check is performed.
C12_FailFastOrder ==
    /\ LogOrdered
    /\ Done =>
        LET first == FirstFailure
        IN  /\ result = first.result
            /\ IF N = 0 THEN log = <<>>
               ELSE /\ log # <<>>
                    /\ log[Len(log)] = first.last
                    /\ AllLoggedBefore(log[Len(log)][2])

C12_Witness ==
    /\ Done /\ result = "JournalDigestMismatch"
    /\ N >= 2
    /\ Meta(N).exit_code = SystemSplit
    /\ ~Logged("final_exit_check", N)

\* C13: get_metadata is called on a receipt only after that receipt's
\* verify_with_context returned success, and only metadata of a verified
\* receipt enters an image-ID, exit-code or journal comparison.
C13_MetadataAfterVerify ==
    /\ \A y \in 1..Len(log) :
        log[y][1] \in {"get_metadata", "image_check", "exit_check",
                       "journal_check", "final_exit_check"} =>
            /\ Verifies(log[y][2])
            /\ \E x \in 1..(y - 1) : log[x] = <<"check_code", log[y][2]>>
    /\ pc \in {"journal", "exit"} => (Verifies(i) /\ metadata = Meta(i))

C13_Witness ==
    /\ Done
    /\ N = 3 /\ i = 2
    /\ ~Verifies(2)
    /\ Decodes(2)
    /\ Logged("get_metadata", 1)
    /\ ~Logged("get_metadata", 2)

\* C16: the steps of a call leave the receipt (segments with their seals,
\* indices and hash names, and the journal), image_id and the context's
\* suites unchanged, on success and on error paths, and a repeated call
\* with the same receipt, context and image_id returns the same result.
C16_ReadOnlyStateless ==
    [][/\ pc # "done" => UNCHANGED <<segments, journal, image_id, ctx>>
       /\ (pc' = "done" /\ run' = 2 /\ tamper'.kind = "repeat") =>
            /\ segments' = prevSegments'
            /\ journal' = prevJournal'
            /\ result' = prevResult']_vars

C16_Witness ==
    /\ Done /\ run = 2 /\ tamper.kind = "repeat"
    /\ N >= 2
    /\ journal # <<>>
    /\ prevResult = "JournalDigestMismatch"
    /\ result = "JournalDigestMismatch"

\* The receipts differ in nothing but their index.
SameButIndex(r1, r2) == r1.seal = r2.seal /\ r1.hashfn = r2.hashfn

\* C18: two sessions that differ only in the index values of their receipts
\* get the same result; the order of the segments is their order in the
\* list.
C18_IndexIgnored ==
    (Done /\ run = 2 /\ tamper.kind = "index") =>
        /\ Len(prevSegments) = N
        /\ \A k \in 1..N : SameButIndex(segments[k], prevSegments[k])
        /\ segments # prevSegments
        /\ journal = prevJournal
        /\ result = prevResult

C18_Witness ==
    /\ Done /\ run = 2 /\ tamper.kind = "index"
    /\ N = 3
    /\ segments[1].index = 2 /\ segments[2].index = 1 /\ segments[3].index = 1
    /\ result = "Ok"

\* C15: the variant that gathers verification and metadata of all receipts
\* in any order and then makes the image-ID, exit-code and journal checks in
\* segment order returns Ok for exactly the inputs for which the sequential
\* verify_with_context returns Ok.
C15_VariantAcceptsSame ==
    parPc = "done" => (parResult = "Ok" <=> result = "Ok")

C15_Witness ==
    /\ parPc = "done" /\ parResult = "Ok"
    /\ Done /\ result = "Ok"
    /\ N = 3
    /\ journal = <<>>

\* The variant and the sequential call reject one session with different errors.
C15_ErrorsMayDiffer ==
    /\ parPc = "done" /\ Done
    /\ parResult # "Ok" /\ result # "Ok"
    /\ parResult # result

====
